---- MODULE Spec2Model ----
(***************************************************************************)
(* Model of daily_report.py: the feed collector, the thread-pool fetch     *)
(* stage (_fetch_and_parse_all_articles / _fetch_and_parse_article) and    *)
(* the per-report classify / summarize / render loop of main().            *)
(*                                                                         *)
(* Strings are sequences of one-character strings, so that lower(),        *)
(* concatenation, the substring test `in` and ", ".join are computed.      *)
(***************************************************************************)
EXTENDS Integers, Sequences, FiniteSets, TLC

VARIABLES
    cred,              \* os.getenv("OPENAI_API_KEY") is set
    feeds,             \* what feedparser.parse yields for each URL of RSS_FEEDS
    reports,           \* REPORTS_CONFIG
    pc,                \* position of main()'s control flow
    feedIdx,           \* index of the feed URL the collector loop is at
    feedsParsed,       \* number of feedparser.parse calls made
    all_entries,       \* list of (entry, source_name)
    submitted,         \* number of run_in_executor submissions made
    numThreads,        \* worker threads the executor has spawned
    started,           \* number of work items dequeued by workers (FIFO)
    running,           \* tasks whose _fetch_and_parse_article call is in flight
    results,           \* per task: Pending, or what the call returned
    all_articles,      \* the corpus returned by _fetch_and_parse_all_articles
    rpt,               \* index into REPORTS_CONFIG of the current report
    filtered_articles, \* per report: matched articles, as corpus indices
    artIdx,            \* position of the summarize loop in filtered_articles
    report_data,       \* per report: the ReportItems appended so far
    itemSrc,           \* per report: corpus index each ReportItem came from
    sumCalls,          \* per report: corpus indices summarize was invoked on
    sumResults,        \* per report: whether each summarize call returned (TRUE)
                       \* or raised (FALSE)
    llmInFlight,       \* number of summarize calls that have not yet returned
    renderCalls,       \* per report: number of generate_html_report calls
    outcome,           \* per report: "none", "rendered", "skipped", "failed"
    artifacts,         \* report names with a file in OUTPUT_DIR
    published          \* report names with a copy in PUBLISH_DIR

vars == <<cred, feeds, reports, pc, feedIdx, feedsParsed, all_entries,
          submitted, numThreads, started, running, results, all_articles,
          rpt, filtered_articles, artIdx, report_data, itemSrc, sumCalls,
          sumResults, llmInFlight, renderCalls, outcome, artifacts, published>>

----------------------------------------------------------------------------
(* Configuration *)

MAX_ARTICLES_PER_FEED == 20
MAX_CONCURRENT_WORKERS == 10

\* Number of feed URLs in RSS_FEEDS that the model visits.
NumFeeds == 2
\* Length of the long feed of the pool scenario (more than the pool's size).
PoolEntries == 11

----------------------------------------------------------------------------
(* Strings *)

LowerChar(c) ==
    CASE c = "A" -> "a"
      [] c = "B" -> "b"
      [] c = "C" -> "c"
      [] OTHER -> c

\* str.lower()
Lower(s) == [i \in 1..Len(s) |-> LowerChar(s[i])]

\* Python's `k in t` for strings
IsSubstr(k, t) ==
    \E i \in 0..(Len(t) - Len(k)) : SubSeq(t, i + 1, i + Len(k)) = k

\* filter of a list comprehension, order kept: the indices i, ascending, with
\* keep[i] true, from index i on
RECURSIVE SelectFrom(_, _)
SelectFrom(keep, i) ==
    IF i > Len(keep) THEN <<>>
    ELSE (IF keep[i] THEN <<i>> ELSE <<>>) \o SelectFrom(keep, i + 1)

SelectIdx(keep) == SelectFrom(keep, 1)

\* sep.join(list)
RECURSIVE Join(_, _)
Join(sep, l) ==
    IF l = <<>> THEN <<>>
    ELSE IF Len(l) = 1 THEN l[1]
    ELSE l[1] \o sep \o Join(sep, Tail(l))

CommaSpace == <<",", " ">>

----------------------------------------------------------------------------
(* The world: pages behind links, entries, feeds *)

Absent == "ABSENT"      \* a missing key / None

\* The state of a task's future: not done; done with the value None; done with
\* an Article; done with an exception.
Pending == [state |-> "pending"]
None == [state |-> "none"]
Raised == [state |-> "raised"]
Returned(article) == [state |-> "article", article |-> article]

PlaceholderTitle == <<"#">>     \* "제목 없음"
UnknownSource == "Unknown Source"
Today == "today"                \* datetime.now().strftime("%Y-%m-%d")

\* What Article(link).download(); parse() does for each link: it raises, or
\* it yields a title (possibly empty), a text (possibly empty) and possibly a
\* publish date.  Texts are written over the letters a, b, c in both cases and
\* the caseless letter x.
Page(link) ==
    CASE link = "u1" -> [raises |-> TRUE]
      [] link = "u2" -> [raises |-> FALSE, title |-> <<"x">>, text |-> <<>>,
                         publish_date |-> "d1"]
      [] link = "u3" -> [raises |-> FALSE, title |-> <<"a">>, text |-> <<"B", "x">>,
                         publish_date |-> "d1"]
      [] link = "u4" -> [raises |-> FALSE, title |-> <<>>, text |-> <<"x", "c">>,
                         publish_date |-> Absent]
      [] link = "u5" -> [raises |-> FALSE, title |-> <<"x">>, text |-> <<"x">>,
                         publish_date |-> "d2"]
      [] link = "uA" -> [raises |-> TRUE]
      [] link = "uB" -> [raises |-> FALSE, title |-> <<"B">>,
                         text |-> <<"x", "nong", "hyup", "x">>,
                         publish_date |-> "d1"]
      [] link = "uC" -> [raises |-> FALSE, title |-> <<"C">>,
                         text |-> <<"hwan", "yul", "x">>,
                         publish_date |-> "d2"]
      [] OTHER -> [raises |-> TRUE]

EntryNoLink == [link |-> Absent, has_title |-> TRUE, title |-> <<"a", "b">>]
EntryRaises == [link |-> "u1", has_title |-> TRUE, title |-> <<"c">>]
EntryEmpty  == [link |-> "u2", has_title |-> TRUE, title |-> <<"c">>]
EntryAB     == [link |-> "u3", has_title |-> TRUE, title |-> <<"x">>]
EntryC      == [link |-> "u4", has_title |-> TRUE, title |-> <<"A">>]
EntryCNoT   == [link |-> "u4", has_title |-> FALSE, title |-> <<>>]
EntryX      == [link |-> "u5", has_title |-> TRUE, title |-> <<>>]
\* an entry whose title element is present and empty, on the page without a title
EntryCEmptyT == [link |-> "u4", has_title |-> TRUE, title |-> <<>>]

FeedFails == [fails |-> TRUE, title |-> Absent, entries |-> <<>>]
Feed(t, es) == [fails |-> FALSE, title |-> t, entries |-> es]

\* What a feed URL may serve: a document that cannot be parsed, a feed without
\* entries, and feeds whose entries fail and succeed at different positions.
FeedChoices ==
    { FeedFails,
      Feed("S0", <<>>),
      Feed("S1", <<EntryRaises, EntryAB>>),
      Feed(Absent, <<EntryC, EntryNoLink>>),
      Feed("S2", <<EntryEmpty, EntryX, EntryCNoT>>),
      Feed("S3", <<EntryAB>>) }

\* REPORTS_CONFIG: two reports with ordered keyword lists.  The keywords are
\* written over the same letters as the pages, in mixed case, so that lower()
\* has work to do; "q" occurs in no page.
ReportsConfig ==
    << [name |-> "R1", keywords |-> << <<"A", "b">>, <<"q">>, <<"b">> >>],
       [name |-> "R2", keywords |-> << <<"C">>, <<"a">> >>] >>

\* The worked example: three entries A, B, C, where the extraction of A's
\* page fails, B's body contains the first report's keyword and C's body the
\* second report's keyword.  A Hangul syllable is one character of the text
\* and is written as its romanisation: "nong" "hyup", "hwan" "yul".
ExampleEntryA == [link |-> "uA", has_title |-> TRUE, title |-> <<"a">>]
ExampleEntryB == [link |-> "uB", has_title |-> TRUE, title |-> <<"b">>]
ExampleEntryC == [link |-> "uC", has_title |-> TRUE, title |-> <<"c">>]

\* the three entries served by one feed, or spread over two or three feeds
ExampleFeedLists ==
    { << Feed("S1", <<ExampleEntryA, ExampleEntryB, ExampleEntryC>>) >>,
      << Feed("S1", <<ExampleEntryA>>),
         Feed("S2", <<ExampleEntryB, ExampleEntryC>>) >>,
      << Feed("S1", <<ExampleEntryA, ExampleEntryB>>), FeedFails,
         Feed(Absent, <<ExampleEntryC>>) >> }

ExampleConfig ==
    << [name |-> "nongup_report", keywords |-> << <<"nong", "hyup">> >>],
       [name |-> "gyeongje_report", keywords |-> << <<"hwan", "yul">> >>] >>

----------------------------------------------------------------------------
(* _fetch_and_parse_article *)

\* entry.get("title", "제목 없음")
EntryTitleOrPlaceholder(entry) ==
    IF entry.has_title THEN entry.title ELSE PlaceholderTitle

\* the dict built at lines 61-67
MakeArticle(entry, source_name, page) ==
    [date   |-> IF page.publish_date # Absent THEN page.publish_date ELSE Today,
     title  |-> IF page.title # <<>> THEN page.title
                ELSE EntryTitleOrPlaceholder(entry),
     source |-> source_name,
     body   |-> page.text,
     link   |-> entry.link]

\* the call without its try/except: an exception of download()/parse() leaves
\* the call and is held by the task's future
FetchAndParseArticle_Propagates(pair) ==
    LET entry == pair[1]
        page  == Page(entry.link)
    IN  IF entry.link = Absent THEN None
        ELSE IF page.raises THEN Raised
        ELSE IF page.text = <<>> THEN None
        ELSE Returned(MakeArticle(entry, pair[2], page))

\* the call without the test `if not article.text`
FetchAndParseArticle_KeepsEmpty(pair) ==
    LET entry == pair[1]
        page  == Page(entry.link)
    IN  IF entry.link = Absent THEN None
        ELSE IF page.raises THEN None
        ELSE Returned(MakeArticle(entry, pair[2], page))

\* what the call returns, given the pair (entry, source_name)
FetchAndParseArticle(pair) ==
    LET entry == pair[1]
        page  == Page(entry.link)
    IN  IF entry.link = Absent THEN None
        ELSE IF page.raises THEN None
        ELSE IF page.text = <<>> THEN None
        ELSE Returned(MakeArticle(entry, pair[2], page))

----------------------------------------------------------------------------
(* Collector: lines 74-84 *)

\* feed.feed.get("title", "Unknown Source")
SourceName(feed) == IF feed.title = Absent THEN UnknownSource ELSE feed.title

\* the loop with the test `if i > MAX_ARTICLES_PER_FEED: break`
Retained_OneMore(feed) ==
    LET n == IF Len(feed.entries) < MAX_ARTICLES_PER_FEED + 1
             THEN Len(feed.entries) ELSE MAX_ARTICLES_PER_FEED + 1
    IN  [i \in 1..n |-> <<feed.entries[i], SourceName(feed)>>]

\* the entries the enumerate loop appends for one feed
Retained(feed) ==
    LET n == IF Len(feed.entries) < MAX_ARTICLES_PER_FEED
             THEN Len(feed.entries) ELSE MAX_ARTICLES_PER_FEED
    IN  [i \in 1..n |-> <<feed.entries[i], SourceName(feed)>>]

\* what one iteration of `for feed_url in RSS_FEEDS` adds to all_entries
CollectedFrom(feed) == IF feed.fails THEN <<>> ELSE Retained(feed)

----------------------------------------------------------------------------
(* Classifier and ReportItem: lines 334-353 *)

\* the test with the keyword lowered and the text left as it is
KeywordIn_TextNotLowered(kw, article) ==
    IsSubstr(Lower(kw), article.title \o article.body)

\* kw.lower() in (article['title'] + article['body']).lower()
KeywordIn(kw, article) ==
    IsSubstr(Lower(kw), Lower(article.title \o article.body))

\* any(... for keyword in keywords)
Matches(article, keywords) ==
    \E k \in 1..Len(keywords) : KeywordIn(keywords[k], article)

\* filtered_articles, as the indices of the selected articles of the corpus
Filter(corpus, keywords) ==
    SelectIdx([i \in 1..Len(corpus) |-> Matches(corpus[i], keywords)])

\* a list that records every keyword of the report, matched or not
MatchedKeywords_All(article, keywords) == keywords

\* the matched keywords collected in the opposite order
MatchedKeywords_Reversed(article, keywords) ==
    LET idx == SelectIdx([k \in 1..Len(keywords) |-> KeywordIn(keywords[k], article)])
    IN  [j \in 1..Len(idx) |-> keywords[idx[Len(idx) + 1 - j]]]

\* [kw for kw in keywords if kw.lower() in ...]
MatchedKeywords(article, keywords) ==
    LET idx == SelectIdx([k \in 1..Len(keywords) |-> KeywordIn(keywords[k], article)])
    IN  [j \in 1..Len(idx) |-> keywords[idx[j]]]

MakeItem(article, keywords, summary) ==
    [date     |-> article.date,
     keywords |-> Join(CommaSpace, MatchedKeywords(article, keywords)),
     title    |-> article.title,
     summary  |-> summary,
     link     |-> article.link,
     source   |-> article.source]

\* an aggregation that gives up at the first failed fetch
Aggregate_UpToFailure(res) ==
    LET n == CHOOSE k \in 0..Len(res) :
                 /\ \A i \in 1..k : res[i].state = "article"
                 /\ k = Len(res) \/ res[k + 1].state # "article"
    IN  [j \in 1..n |-> res[j].article]

\* parsed_articles = [item for item in results if item]
Aggregate(res) ==
    LET idx == SelectIdx([i \in 1..Len(res) |-> res[i].state = "article"])
    IN  [j \in 1..Len(idx) |-> res[idx[j]].article]

----------------------------------------------------------------------------
(* Initial states *)

NoReports(v) == [r \in 1..Len(ReportsConfig) |-> v]

\* main() and the coordinator before their first statement
InitRun ==
    /\ cred \in BOOLEAN
    /\ pc = "start"
    /\ feedIdx = 1
    /\ feedsParsed = 0
    /\ all_entries = <<>>
    /\ submitted = 0
    /\ numThreads = 0
    /\ started = 0
    /\ running = {}
    /\ results = <<>>
    /\ all_articles = <<>>
    /\ rpt = 0
    /\ filtered_articles = NoReports(<<>>)
    /\ artIdx = 0
    /\ report_data = NoReports(<<>>)
    /\ itemSrc = NoReports(<<>>)
    /\ sumCalls = NoReports(<<>>)
    /\ sumResults = NoReports(<<>>)
    /\ llmInFlight = 0
    /\ renderCalls = NoReports(0)
    /\ outcome = NoReports("none")
    /\ artifacts = {}
    /\ published = {}

InitRest ==
    /\ reports = ReportsConfig
    /\ InitRun

Init ==
    /\ feeds \in [1..NumFeeds -> FeedChoices]
    /\ InitRest

\* the worked example's feeds and report configurations
InitExample ==
    /\ feeds \in ExampleFeedLists
    /\ reports = ExampleConfig
    /\ InitRun

\* feeds whose entries carry a title, an empty title, or no title, over pages
\* with and without a title of their own
TitleFeedChoices ==
    { Feed("S1", <<EntryC, EntryCNoT>>),
      Feed("S2", <<EntryCEmptyT, EntryAB>>),
      Feed("S3", <<EntryX>>) }

InitTitle ==
    /\ feeds \in [1..NumFeeds -> TitleFeedChoices]
    /\ InitRest

\* a feed with more entries than the pool has workers
LongFeed ==
    Feed("S9", [i \in 1..PoolEntries |->
                   CASE i % 4 = 0 -> EntryAB
                     [] i % 4 = 1 -> EntryRaises
                     [] i % 4 = 2 -> EntryNoLink
                     [] OTHER     -> EntryEmpty])

InitPool ==
    /\ feeds \in { <<f, LongFeed>> : f \in {FeedFails, Feed(Absent, <<EntryC>>)} }
    /\ InitRest

----------------------------------------------------------------------------
\* a feed of n entries told apart by their titles; most of their pages fail
NumberedEntry(i) ==
    [link |-> IF i % 8 = 0 THEN "u3" ELSE "u1", has_title |-> TRUE,
     title |-> <<ToString(i)>>]

NumberedFeed(t, n) == Feed(t, [i \in 1..n |-> NumberedEntry(i)])

\* feeds with fewer entries than MAX_ARTICLES_PER_FEED, exactly as many, and more
CapFeedChoices ==
    { FeedFails,
      NumberedFeed("K1", 1),
      NumberedFeed("K2", MAX_ARTICLES_PER_FEED - 1),
      NumberedFeed(Absent, MAX_ARTICLES_PER_FEED),
      NumberedFeed("K4", MAX_ARTICLES_PER_FEED + 1),
      NumberedFeed("K5", MAX_ARTICLES_PER_FEED + 3) }

InitCollect ==
    /\ feeds \in [1..NumFeeds -> CapFeedChoices]
    /\ InitRest


\* three feed URLs, each failing or serving one of two short feeds, so that a
\* failing feed has feeds before and after it
IsolationFeedChoices ==
    { FeedFails, Feed("S1", <<EntryRaises, EntryAB>>), Feed("S3", <<EntryC>>) }

InitIsolation ==
    /\ feeds \in [1..(NumFeeds + 1) -> IsolationFeedChoices]
    /\ InitRest

(* main(): credential check, lines 320-322 *)

\* a credential test that only warns
AfterCredentialCheck_WarnOnly(c) == "collect"

\* if not os.getenv("OPENAI_API_KEY"): ... return
AfterCredentialCheck(c) == IF c THEN "collect" ELSE "aborted"

CheckCredential ==
    /\ pc = "start"
    /\ pc' = AfterCredentialCheck(cred)
    /\ UNCHANGED <<cred, feeds, reports, feedIdx, feedsParsed, all_entries,
                   submitted, numThreads, started, running, results,
                   all_articles, rpt, filtered_articles, artIdx, report_data,
                   itemSrc, sumCalls, llmInFlight, renderCalls, outcome,
                   artifacts, published,
                   sumResults>>

\* the feed loop without its try/except: a feed that fails ends the run
ParseFeed_Propagates ==
    /\ pc = "collect"
    /\ feedIdx <= Len(feeds)
    /\ feedsParsed' = feedsParsed + 1
    /\ all_entries' = all_entries \o CollectedFrom(feeds[feedIdx])
    /\ feedIdx' = feedIdx + 1
    /\ pc' = IF feeds[feedIdx].fails THEN "crashed"
             ELSE IF feedIdx = Len(feeds) THEN "fetch" ELSE "collect"
    /\ results' = IF feedIdx = Len(feeds)
                  THEN [i \in 1..Len(all_entries') |-> Pending]
                  ELSE results
    /\ UNCHANGED <<cred, feeds, reports, submitted, numThreads, started,
                   running, all_articles, rpt, filtered_articles, artIdx,
                   report_data, itemSrc, sumCalls, llmInFlight, renderCalls,
                   outcome, artifacts, published, sumResults>>

(* _fetch_and_parse_all_articles: one iteration of the feed loop, lines 75-84 *)

ParseFeed ==
    /\ pc = "collect"
    /\ feedIdx <= Len(feeds)
    /\ feedsParsed' = feedsParsed + 1
    /\ all_entries' = all_entries \o CollectedFrom(feeds[feedIdx])
    /\ feedIdx' = feedIdx + 1
    /\ pc' = IF feedIdx = Len(feeds) THEN "fetch" ELSE "collect"
    /\ results' = IF feedIdx = Len(feeds)
                  THEN [i \in 1..Len(all_entries') |-> Pending]
                  ELSE results
    /\ UNCHANGED <<cred, feeds, reports, submitted, numThreads, started,
                   running, all_articles, rpt, filtered_articles, artIdx,
                   report_data, itemSrc, sumCalls, llmInFlight, renderCalls,
                   outcome, artifacts, published,
                   sumResults>>

(* loop.run_in_executor(executor, ...), lines 89-92: the work item is queued  *)
(* and the executor spawns a worker thread unless it already has max_workers  *)
(* (an executor that reuses an idle thread instead spawns fewer: the runs of   *)
(* such an executor are among the runs of this one).  Submissions go on while  *)
(* the workers already run.                                                    *)

\* an executor that spawns one thread per submission
ThreadsAfterSubmit_Unbounded(n) == n + 1

\* ThreadPoolExecutor(max_workers=MAX_CONCURRENT_WORKERS): the number of
\* worker threads after one more submission
ThreadsAfterSubmit(n) == IF n < MAX_CONCURRENT_WORKERS THEN n + 1 ELSE n

SubmitTask ==
    /\ pc = "fetch"
    /\ submitted < Len(all_entries)
    /\ submitted' = submitted + 1
    /\ numThreads' = ThreadsAfterSubmit(numThreads)
    /\ UNCHANGED <<cred, feeds, reports, pc, feedIdx, feedsParsed, all_entries,
                   started, running, results, all_articles, rpt,
                   filtered_articles, artIdx, report_data, itemSrc, sumCalls,
                   llmInFlight, renderCalls, outcome, artifacts, published,
                   sumResults>>

(* A worker thread that is not running a call takes the next work item of the *)
(* queue and calls _fetch_and_parse_article on it.                            *)

StartTask ==
    /\ started < submitted
    /\ Cardinality(running) < numThreads
    /\ started' = started + 1
    /\ running' = running \cup {started + 1}
    /\ UNCHANGED <<cred, feeds, reports, pc, feedIdx, feedsParsed, all_entries,
                   submitted, numThreads, results, all_articles, rpt,
                   filtered_articles, artIdx, report_data, itemSrc, sumCalls,
                   llmInFlight, renderCalls, outcome, artifacts, published,
                   sumResults>>

(* a collection of the results as the calls complete: the result of task i   *)
(* goes to the first free place, not to the place of its own submission      *)
FinishTask_InCompletionOrder(i) ==
    /\ i \in running
    /\ running' = running \ {i}
    /\ LET p == CHOOSE k \in 1..Len(results) :
                    /\ results[k].state = "pending"
                    /\ \A m \in 1..(k - 1) : results[m].state # "pending"
       IN  results' = [results EXCEPT ![p] = FetchAndParseArticle(all_entries[i])]
    /\ UNCHANGED <<cred, feeds, reports, pc, feedIdx, feedsParsed, all_entries,
                   submitted, numThreads, started, all_articles, rpt,
                   filtered_articles, artIdx, report_data, itemSrc, sumCalls,
                   llmInFlight, renderCalls, outcome, artifacts, published,
                   sumResults>>

(* The call of task i returns and its future is set. *)

FinishTask(i) ==
    /\ i \in running
    /\ running' = running \ {i}
    /\ results' = [results EXCEPT ![i] = FetchAndParseArticle(all_entries[i])]
    /\ UNCHANGED <<cred, feeds, reports, pc, feedIdx, feedsParsed, all_entries,
                   submitted, numThreads, started, all_articles, rpt,
                   filtered_articles, artIdx, report_data, itemSrc, sumCalls,
                   llmInFlight, renderCalls, outcome, artifacts, published,
                   sumResults>>

(* The await of asyncio.gather completes, the executor is shut down, the      *)
(* results are filtered and returned to main(): lines 93-97 and 326.          *)

AllDone == \A i \in 1..Len(results) : results[i].state # "pending"

NextReport(r) == IF r < Len(reports) THEN "classify" ELSE "done"

\* a coordinator that returns as soon as every task has been picked up
JoinReady_AllStarted == submitted = Len(all_entries) /\ started = submitted

\* the list comprehension has submitted every entry and gather's future is
\* done: every task's future is done
JoinReady == submitted = Len(all_entries) /\ AllDone

GatherAndReturn ==
    /\ pc = "fetch"
    /\ JoinReady
    /\ IF \E i \in 1..Len(results) : results[i].state = "raised"
       THEN /\ pc' = "crashed"
            /\ UNCHANGED <<all_articles, rpt>>
       ELSE /\ all_articles' = Aggregate(results)
            /\ rpt' = 1
            /\ pc' = NextReport(0)
    /\ UNCHANGED <<cred, feeds, reports, feedIdx, feedsParsed, all_entries,
                   submitted, numThreads, started, running, results,
                   filtered_articles, artIdx, report_data, itemSrc, sumCalls,
                   llmInFlight, renderCalls, outcome, artifacts, published,
                   sumResults>>

----------------------------------------------------------------------------
(* main(): the loop over REPORTS_CONFIG, lines 328-360 *)

Keywords(r) == reports[r].keywords

\* what the summarization service may answer
Summaries == {"s1"}

\* what generate_html_report may do: write and publish the file; fail before
\* the file is written (makedirs, open); fail copying the written file
RenderResults == {"ok", "write_fails", "publish_fails"}

(* a filter that takes the selected articles out of the shared corpus *)

Classify_Consumes ==
    /\ pc = "classify"
    /\ filtered_articles' =
           [filtered_articles EXCEPT ![rpt] = Filter(all_articles, Keywords(rpt))]
    /\ all_articles' =
           LET rest == SelectIdx([i \in 1..Len(all_articles) |->
                                     ~Matches(all_articles[i], Keywords(rpt))])
           IN  [j \in 1..Len(rest) |-> all_articles[rest[j]]]
    /\ artIdx' = 1
    /\ pc' = "summarize"
    /\ UNCHANGED <<cred, feeds, reports, feedIdx, feedsParsed, all_entries,
                   submitted, numThreads, started, running, results,
                   rpt, report_data, itemSrc, sumCalls, sumResults,
                   llmInFlight, renderCalls, outcome, artifacts, published>>

(* lines 329-341: the filter, and report_data = [] *)

Classify ==
    /\ pc = "classify"
    /\ filtered_articles' =
           [filtered_articles EXCEPT ![rpt] = Filter(all_articles, Keywords(rpt))]
    /\ artIdx' = 1
    /\ pc' = "summarize"
    /\ UNCHANGED <<cred, feeds, reports, feedIdx, feedsParsed, all_entries,
                   submitted, numThreads, started, running, results,
                   all_articles, rpt, report_data, itemSrc, sumCalls,
                   llmInFlight, renderCalls, outcome, artifacts, published,
                   sumResults>>

(* lines 342-345: the next matched article is handed to the service *)

SummarizeCall ==
    /\ pc = "summarize"
    /\ artIdx <= Len(filtered_articles[rpt])
    /\ sumCalls' = [sumCalls EXCEPT
                       ![rpt] = Append(@, filtered_articles[rpt][artIdx])]
    /\ llmInFlight' = llmInFlight + 1
    /\ pc' = "llm"
    /\ UNCHANGED <<cred, feeds, reports, feedIdx, feedsParsed, all_entries,
                   submitted, numThreads, started, running, results,
                   all_articles, rpt, filtered_articles, artIdx, report_data,
                   itemSrc, renderCalls, outcome, artifacts, published,
                   sumResults>>

(* lines 345-355: the call returns a summary and the item is appended, or it *)
(* raises and the article is left out; the loop moves on                     *)

\* the call without its try/except: an exception of the service ends main()
AfterSummarize_Propagates(ok) == IF ok THEN "summarize" ELSE "crashed"

\* where control goes when the call returned (ok) or raised: the except clause
\* prints and the for loop goes on
AfterSummarize(ok) == "summarize"

SummarizeReturn ==
    /\ pc = "llm"
    /\ \E ok \in BOOLEAN, summary \in Summaries :
          LET a == filtered_articles[rpt][artIdx]
          IN  /\ IF ok
                 THEN /\ report_data' =
                             [report_data EXCEPT ![rpt] =
                                 Append(@, MakeItem(all_articles[a], Keywords(rpt),
                                                    summary))]
                      /\ itemSrc' = [itemSrc EXCEPT ![rpt] = Append(@, a)]
                 ELSE UNCHANGED <<report_data, itemSrc>>
              /\ sumResults' = [sumResults EXCEPT ![rpt] = Append(@, ok)]
              /\ pc' = AfterSummarize(ok)
    /\ llmInFlight' = llmInFlight - 1
    /\ artIdx' = artIdx + 1
    /\ UNCHANGED <<cred, feeds, reports, feedIdx, feedsParsed, all_entries,
                   submitted, numThreads, started, running, results,
                   all_articles, rpt, filtered_articles, sumCalls, renderCalls,
                   outcome, artifacts, published>>

(* lines 357-360: after the loop, render if report_data, else skip *)

\* rendering without the test of report_data
RenderWanted_Always(data) == TRUE

\* if report_data:
RenderWanted(data) == data # <<>>

(* a loop that collects every report first and renders them all afterwards:   *)
(* a report with data is left unrendered and the next one is started          *)

CheckReportData_DeferRender ==
    /\ pc = "summarize"
    /\ artIdx > Len(filtered_articles[rpt])
    /\ IF RenderWanted(report_data[rpt]) /\ rpt = Len(reports)
       THEN /\ pc' = "render"
            /\ UNCHANGED <<rpt, outcome>>
       ELSE /\ outcome' = [outcome EXCEPT ![rpt] =
                              IF RenderWanted(report_data[rpt]) THEN "none" ELSE "skipped"]
            /\ pc' = NextReport(rpt)
            /\ rpt' = rpt + 1
    /\ UNCHANGED <<cred, feeds, reports, feedIdx, feedsParsed, all_entries,
                   submitted, numThreads, started, running, results,
                   all_articles, filtered_articles, artIdx, report_data,
                   itemSrc, sumCalls, llmInFlight, renderCalls, artifacts,
                   published, sumResults>>

CheckReportData ==
    /\ pc = "summarize"
    /\ artIdx > Len(filtered_articles[rpt])
    /\ IF RenderWanted(report_data[rpt])
       THEN /\ pc' = "render"
            /\ UNCHANGED <<rpt, outcome>>
       ELSE /\ outcome' = [outcome EXCEPT ![rpt] = "skipped"]
            /\ pc' = NextReport(rpt)
            /\ rpt' = rpt + 1
    /\ UNCHANGED <<cred, feeds, reports, feedIdx, feedsParsed, all_entries,
                   submitted, numThreads, started, running, results,
                   all_articles, filtered_articles, artIdx, report_data,
                   itemSrc, sumCalls, llmInFlight, renderCalls, artifacts,
                   published,
                   sumResults>>

(* generate_html_report(report_data, report_name), lines 113-304; an exception *)
(* it raises is caught nowhere and ends main()                                *)

Render ==
    /\ pc = "render"
    /\ renderCalls' = [renderCalls EXCEPT ![rpt] = @ + 1]
    /\ \E res \in RenderResults :
          /\ artifacts' = IF res = "write_fails" THEN artifacts
                          ELSE artifacts \cup {reports[rpt].name}
          /\ published' = IF res = "ok" THEN published \cup {reports[rpt].name}
                          ELSE published
          /\ outcome' = [outcome EXCEPT
                            ![rpt] = IF res = "ok" THEN "rendered" ELSE "failed"]
          /\ pc' = IF res = "ok" THEN NextReport(rpt) ELSE "crashed"
          /\ rpt' = IF res = "ok" THEN rpt + 1 ELSE rpt
    /\ UNCHANGED <<cred, feeds, reports, feedIdx, feedsParsed, all_entries,
                   submitted, numThreads, started, running, results,
                   all_articles, filtered_articles, artIdx, report_data,
                   itemSrc, sumCalls, llmInFlight,
                   sumResults>>

----------------------------------------------------------------------------

Next ==
    \/ CheckCredential
    \/ ParseFeed
    \/ SubmitTask
    \/ StartTask
    \/ \E i \in running : FinishTask(i)
    \/ GatherAndReturn
    \/ Classify
    \/ SummarizeCall
    \/ SummarizeReturn
    \/ CheckReportData
    \/ Render

Spec == Init /\ [][Next]_vars

SpecPool == InitPool /\ [][Next]_vars

\* The collector alone.  It runs before the first submission and no later step
\* assigns all_entries, so its result is followed up to the end of its loop.
NextCollect == CheckCredential \/ ParseFeed

SpecCollect == InitCollect /\ [][NextCollect]_vars

\* The whole run on the worked example.
SpecExample == InitExample /\ [][Next]_vars

\* The whole run over entries with and without titles.
SpecTitle == InitTitle /\ [][Next]_vars

\* The whole run over three feed URLs.
SpecIsolation == InitIsolation /\ [][Next]_vars



----------------------------------------------------------------------------
(* Vocabulary of the properties *)

Tasks == 1..Len(all_entries)
Reports == 1..Len(reports)

\* _fetch_and_parse_all_articles has returned its corpus to main()
CoordinatorReturned == rpt >= 1

\* the fetch of entry i succeeds: it has a link, the page downloads and
\* parses, and the extracted body is not empty
FetchSucceeds(i) ==
    LET link == all_entries[i][1].link
    IN  /\ link # Absent
        /\ ~Page(link).raises
        /\ Page(link).text # <<>>

\* the Article a successful fetch of entry i yields
ArticleOf(i) == MakeArticle(all_entries[i][1], all_entries[i][2],
                            Page(all_entries[i][1].link))

Occurrences(seq, x) == Cardinality({j \in 1..Len(seq) : seq[j] = x})

----------------------------------------------------------------------------
(* C1: partial-failure isolation.  Whatever the entries, whichever of them   *)
(* fail and in whatever order the workers complete: a finished task holds an *)
(* Article exactly when its own fetch succeeded, whatever its siblings did;  *)
(* the fetch stage never fails the run; and the returned corpus holds        *)
(* exactly one Article for each entry whose fetch succeeded, nothing else.   *)

C1_PartialFailureIsolation ==
    /\ \A i \in 1..Len(results) :
          /\ results[i].state \in {"pending", "none", "article"}
          /\ results[i].state = "article" =>
                FetchSucceeds(i) /\ results[i].article = ArticleOf(i)
          /\ results[i].state = "none" => ~FetchSucceeds(i)
    /\ pc = "crashed" => CoordinatorReturned
    /\ CoordinatorReturned =>
          /\ Len(all_articles) = Cardinality({i \in Tasks : FetchSucceeds(i)})
          /\ \A i \in Tasks :
                FetchSucceeds(i) =>
                   Occurrences(all_articles, ArticleOf(i)) =
                      Cardinality({j \in Tasks : FetchSucceeds(j)
                                                  /\ ArticleOf(j) = ArticleOf(i)})

\* the corpus was returned for a batch in which a fetch that raised sits
\* between two successful fetches, and another entry failed for want of a link
C1_Witness ==
    /\ CoordinatorReturned
    /\ \E i, j, k \in Tasks :
          /\ i < j /\ j < k
          /\ FetchSucceeds(i) /\ FetchSucceeds(k)
          /\ all_entries[j][1].link # Absent /\ Page(all_entries[j][1].link).raises
    /\ \E n \in Tasks : all_entries[n][1].link = Absent
    /\ Len(all_articles) >= 2

----------------------------------------------------------------------------
(* C2: bounded parallelism.  In every reachable state the number of          *)
(* _fetch_and_parse_article calls that have started and not yet returned is  *)
(* at most MAX_CONCURRENT_WORKERS, also with more entries than workers.      *)

C2_BoundedParallelism == Cardinality(running) <= MAX_CONCURRENT_WORKERS

\* the pool is full while a submitted entry waits in the queue
C2_Witness ==
    /\ Len(all_entries) > MAX_CONCURRENT_WORKERS
    /\ Cardinality(running) = MAX_CONCURRENT_WORKERS
    /\ started < submitted

----------------------------------------------------------------------------
(* C3: join barrier.  The coordinator has returned the corpus only if every  *)
(* entry was submitted and every submitted fetch has produced a result or     *)
(* failed; no fetch is in flight while a report is classified, summarized or  *)
(* rendered; the corpus is empty until then.                                  *)

InReportStep == pc \in {"classify", "summarize", "llm", "render"}

C3_JoinBarrier ==
    /\ (CoordinatorReturned \/ InReportStep \/ all_articles # <<>>) =>
          /\ submitted = Len(all_entries)
          /\ started = submitted
          /\ running = {}
          /\ \A i \in 1..Len(results) : results[i].state # "pending"
    /\ ~CoordinatorReturned => all_articles = <<>> /\ ~InReportStep

\* a summarization call is in flight after a fetch stage of at least three
\* entries, every one of them done
C3_Witness ==
    /\ pc = "llm"
    /\ Len(all_entries) >= 3
    /\ running = {}
    /\ Len(all_articles) >= 1

----------------------------------------------------------------------------
(* C4: strictly sequential orchestration.  Control moves start, collecting,  *)
(* fetching and then, report by report in configuration order, classifying,  *)
(* summarizing, rendering; a report is begun only when every report before   *)
(* it has been rendered or skipped and nothing of a later report has been    *)
(* touched; at most one summarization call is in flight.                     *)

PcSteps ==
    { <<"start", "collect">>, <<"start", "aborted">>,
      <<"collect", "collect">>, <<"collect", "fetch">>,
      <<"fetch", "fetch">>, <<"fetch", "classify">>,
      <<"classify", "summarize">>,
      <<"summarize", "llm">>, <<"llm", "summarize">>,
      <<"summarize", "render">>,
      <<"summarize", "classify">>, <<"summarize", "done">>,
      <<"render", "classify">>, <<"render", "done">>, <<"render", "crashed">> }

Untouched(r) ==
    /\ outcome[r] = "none"
    /\ filtered_articles[r] = <<>>
    /\ sumCalls[r] = <<>>
    /\ report_data[r] = <<>>
    /\ renderCalls[r] = 0

InOrder ==
    \A r \in Reports :
       /\ r < rpt => outcome[r] \in {"rendered", "skipped"}
       /\ r > rpt => Untouched(r)
       /\ (r = rpt /\ pc = "classify") => Untouched(r)

C4_Step ==
    /\ <<pc, pc'>> \in PcSteps
    /\ rpt' \in {rpt, rpt + 1}
    /\ (pc' = "classify" /\ pc # "fetch") => rpt' = rpt + 1
    /\ (pc' = "classify" /\ pc = "fetch") => rpt' = 1
    /\ (pc = "classify" \/ pc = "llm") => rpt' = rpt
    /\ llmInFlight' \in {0, 1}
    /\ llmInFlight' = 1 <=> pc' = "llm"
    /\ InOrder'

C4_SequentialOrchestration == [][C4_Step]_vars

\* the second report is being summarized after the first was rendered
C4_Witness ==
    /\ rpt = 2
    /\ pc = "llm"
    /\ outcome[1] = "rendered"
    /\ llmInFlight = 1

----------------------------------------------------------------------------
(* C5: summarization failure isolation.  Within a report the service is       *)
(* invoked once for each matched article, in corpus order, never for another  *)
(* article and never twice; a call that fails drops that article from that    *)
(* report only and the loop goes on, so that when the loop is over the items  *)
(* are exactly the matched articles whose call succeeded, in corpus order.    *)

\* control has left the summarize loop of report r
LoopOver(r) == r < rpt \/ (r = rpt /\ pc \in {"render", "crashed", "done"})

\* the calls of report r that have returned or raised
Answered(r) == Len(sumResults[r])

RECURSIVE Succeeded(_, _)
\* the articles among the first n calls of report r whose call returned
Succeeded(r, n) ==
    IF n = 0 THEN <<>>
    ELSE Succeeded(r, n - 1) \o
         (IF sumResults[r][n] THEN <<sumCalls[r][n]>> ELSE <<>>)

C5_SummarizationIsolation ==
    \A r \in Reports :
       /\ Len(sumCalls[r]) <= Len(filtered_articles[r])
       /\ sumCalls[r] = SubSeq(filtered_articles[r], 1, Len(sumCalls[r]))
       /\ \A m, n \in 1..Len(sumCalls[r]) : m < n => sumCalls[r][m] < sumCalls[r][n]
       /\ Answered(r) <= Len(sumCalls[r])
       /\ Len(sumCalls[r]) <= Answered(r) + 1
       /\ itemSrc[r] = Succeeded(r, Answered(r))
       /\ Len(report_data[r]) = Len(itemSrc[r])
       /\ \A j \in 1..Len(report_data[r]) :
             /\ report_data[r][j].title = all_articles[itemSrc[r][j]].title
             /\ report_data[r][j].link = all_articles[itemSrc[r][j]].link
       /\ LoopOver(r) =>
             /\ sumCalls[r] = filtered_articles[r]
             /\ Answered(r) = Len(sumCalls[r])

\* a report whose loop is over, in which a call failed and a later call
\* succeeded, while the article of the failed call is an item of the other report
C5_Witness ==
    \E r \in Reports :
       /\ LoopOver(r)
       /\ \E m, n \in 1..Len(sumResults[r]) :
             m < n /\ ~sumResults[r][m] /\ sumResults[r][n]
       /\ \E q \in Reports \ {r} :
             \E j \in 1..Len(itemSrc[q]), m \in 1..Len(sumResults[r]) :
                ~sumResults[r][m] /\ sumCalls[r][m] = itemSrc[q][j]

----------------------------------------------------------------------------
(* C6: empty-report skip.                                                     *)

\* report r has been rendered, skipped, or its rendering has failed
Processed(r) == outcome[r] # "none"

NonEmpty(r) == report_data[r] # <<>>

(* C6 as claimed: the number of artifacts equals the number of non-empty     *)
(* reports among the reports processed so far.                               *)

----------------------------------------------------------------------------
(* C7 as claimed: with the credential present, a run that has stopped (no    *)
(* step of it is left to take) is at Done with every ReportConfig processed  *)
(* exactly once, rendered or skipped, however many fetches and                *)
(* summarizations failed and whether or not a rendering failed.               *)

C7_RunReachesDone ==
    (cred /\ ~ENABLED Next) =>
       /\ pc = "done"
       /\ \A r \in Reports : outcome[r] \in {"rendered", "skipped"}

----------------------------------------------------------------------------
(* C8 as claimed: with the credential present no failure of a feed, a fetch, *)
(* a summarization or the production of a report's artifact stops the run:    *)
(* main() never ends by an exception and no report is left unprocessed        *)
(* behind a failed one.                                                       *)

C8_OnlyConfigurationFailureAborts ==
    cred =>
       /\ pc # "crashed"
       /\ \A r \in Reports : outcome[r] # "failed"

----------------------------------------------------------------------------
(* C9: configuration failure.  When the credential is missing the run aborts *)
(* before any fetching: no feed is parsed, no entry collected, no fetch      *)
(* submitted or started, no summarization call made, no report rendered and  *)
(* no artifact written or published.                                          *)

C9_ConfigurationFailure ==
    ~cred =>
       /\ pc \in {"start", "aborted"}
       /\ feedsParsed = 0
       /\ all_entries = <<>>
       /\ submitted = 0
       /\ started = 0
       /\ running = {}
       /\ llmInFlight = 0
       /\ \A r \in Reports : sumCalls[r] = <<>> /\ renderCalls[r] = 0
       /\ artifacts = {}
       /\ published = {}

\* the run has aborted for want of the credential although a feed has entries
C9_Witness ==
    /\ ~cred
    /\ pc = "aborted"
    /\ \E f \in 1..Len(feeds) : feeds[f].entries # <<>>

----------------------------------------------------------------------------
(* C10: classification.  Once a report has been classified, an Article of    *)
(* the corpus is among its selected articles if and only if one of the       *)
(* report's keywords occurs in title ++ body at some offset, each character  *)
(* compared without regard to case; the selected articles are listed once    *)
(* each, in corpus order.                                                     *)

\* report r has been through the filter of lines 334-337
Classified(r) == r < rpt \/ (r = rpt /\ pc # "classify")

\* kw occurs in text at offset d, character by character, case disregarded
OccursAt(kw, text, d) ==
    /\ d + Len(kw) <= Len(text)
    /\ \A j \in 1..Len(kw) : LowerChar(text[d + j]) = LowerChar(kw[j])

SomeKeywordOccurs(r, a) ==
    LET text == all_articles[a].title \o all_articles[a].body
    IN  \E k \in 1..Len(reports[r].keywords) :
           \E d \in 0..Len(text) : OccursAt(reports[r].keywords[k], text, d)

C10_Classification ==
    \A r \in Reports :
       Classified(r) =>
          /\ \A a \in 1..Len(all_articles) :
                (\E j \in 1..Len(filtered_articles[r]) : filtered_articles[r][j] = a)
                   <=> SomeKeywordOccurs(r, a)
          /\ \A m, n \in 1..Len(filtered_articles[r]) :
                m < n => filtered_articles[r][m] < filtered_articles[r][n]

\* a classified report that selects an article only because case is
\* disregarded (no keyword occurs in it as written) and leaves another out
C10_Witness ==
    \E r \in Reports :
       /\ Classified(r)
       /\ \E j \in 1..Len(filtered_articles[r]) :
             LET art == all_articles[filtered_articles[r][j]]
             IN  \A k \in 1..Len(reports[r].keywords) :
                    ~IsSubstr(reports[r].keywords[k], art.title \o art.body)
       /\ \E a \in 1..Len(all_articles) :
             \A j \in 1..Len(filtered_articles[r]) : filtered_articles[r][j] # a

----------------------------------------------------------------------------
(* C11: matched-keyword ordering.  The matchedKeywords of every ReportItem   *)
(* is made of exactly the keywords of the report that occur in the item's    *)
(* article (title ++ body, case disregarded), in the order of the report's   *)
(* keyword list, joined by ", "; and it is never empty.                      *)

KeywordOccurs(kw, text) == \E d \in 0..Len(text) : OccursAt(kw, text, d)

RECURSIVE JoinedUpTo(_, _, _)
\* the occurring keywords among kws[1..k], in list order, joined by ", "
JoinedUpTo(kws, text, k) ==
    IF k = 0 THEN <<>>
    ELSE LET prev == JoinedUpTo(kws, text, k - 1)
         IN  IF ~KeywordOccurs(kws[k], text) THEN prev
             ELSE IF \E m \in 1..(k - 1) : KeywordOccurs(kws[m], text)
                  THEN prev \o <<",", " ">> \o kws[k]
                  ELSE kws[k]

\* the text the classifier looks at for the article of item j of report r
ItemText(r, j) ==
    all_articles[itemSrc[r][j]].title \o all_articles[itemSrc[r][j]].body

C11_MatchedKeywordOrdering ==
    \A r \in Reports :
       \A j \in 1..Len(report_data[r]) :
          /\ report_data[r][j].keywords =
                JoinedUpTo(reports[r].keywords, ItemText(r, j),
                           Len(reports[r].keywords))
          /\ report_data[r][j].keywords # <<>>

\* an item whose article matches the first and the third keyword of its
\* report and not the second
C11_Witness ==
    \E r \in Reports :
       \E j \in 1..Len(report_data[r]) :
          /\ Len(reports[r].keywords) >= 3
          /\ KeywordOccurs(reports[r].keywords[1], ItemText(r, j))
          /\ ~KeywordOccurs(reports[r].keywords[2], ItemText(r, j))
          /\ KeywordOccurs(reports[r].keywords[3], ItemText(r, j))
          /\ report_data[r][j].keywords =
                reports[r].keywords[1] \o <<",", " ">> \o reports[r].keywords[3]

----------------------------------------------------------------------------
(* C12: report independence.  Once the corpus has been returned no step of   *)
(* any report changes it (no Article removed, reordered or modified); every  *)
(* ReportItem carries the date, title, link and source of its own Article;   *)
(* and when a report's loop is over, every Article that matches its keywords *)
(* and whose summarization succeeded is an item of it, whatever the other    *)
(* reports selected: an Article matching two reports is an item of both.     *)

\* the summarize call of report r on article a returned a summary
SummarizedOk(r, a) ==
    \E m \in 1..Len(sumResults[r]) : sumCalls[r][m] = a /\ sumResults[r][m]

ItemsOfOwnArticles ==
    \A r \in Reports :
       /\ \A j \in 1..Len(report_data[r]) :
             LET art == all_articles[itemSrc[r][j]]
             IN  /\ report_data[r][j].date = art.date
                 /\ report_data[r][j].title = art.title
                 /\ report_data[r][j].link = art.link
                 /\ report_data[r][j].source = art.source
       /\ LoopOver(r) =>
             \A a \in 1..Len(all_articles) :
                (SomeKeywordOccurs(r, a) /\ SummarizedOk(r, a)) =>
                   \E j \in 1..Len(itemSrc[r]) : itemSrc[r][j] = a

C12_Step ==
    /\ CoordinatorReturned => all_articles' = all_articles
    /\ ItemsOfOwnArticles'

C12_ReportIndependence == [][C12_Step]_vars

\* the run is done and one Article is an item of both reports
C12_Witness ==
    /\ pc = "done"
    /\ \E a \in 1..Len(all_articles) :
          /\ \E j \in 1..Len(itemSrc[1]) : itemSrc[1][j] = a
          /\ \E j \in 1..Len(itemSrc[2]) : itemSrc[2][j] = a

----------------------------------------------------------------------------
(* C13: entry cap and order.  After the collector has been through a feed    *)
(* that yields M entries, the collected list holds exactly                   *)
(* min(M, MAX_ARTICLES_PER_FEED) entries of it: its first ones, in document  *)
(* order, each paired with the feed's title (the label "Unknown Source" for  *)
(* a feed without a title); the blocks of the feeds follow one another in    *)
(* the order of the feed URLs.                                               *)

\* the feeds the collector loop has been through
FeedsDone == feedIdx - 1

\* the number of entries feed f contributes
FeedCount(f) ==
    IF feeds[f].fails THEN 0
    ELSE IF Len(feeds[f].entries) <= MAX_ARTICLES_PER_FEED
         THEN Len(feeds[f].entries)
         ELSE MAX_ARTICLES_PER_FEED

RECURSIVE Offset(_)
\* the number of entries collected from the feeds before feed f
Offset(f) == IF f <= 1 THEN 0 ELSE Offset(f - 1) + FeedCount(f - 1)

FeedLabel(f) ==
    IF feeds[f].title = Absent THEN "Unknown Source" ELSE feeds[f].title

C13_EntryCapAndOrder ==
    /\ Len(all_entries) = Offset(FeedsDone + 1)
    /\ \A f \in 1..FeedsDone :
          ~feeds[f].fails =>
             \A i \in 1..FeedCount(f) :
                all_entries[Offset(f) + i] = <<feeds[f].entries[i], FeedLabel(f)>>

\* the collector is through: the first feed had more entries than the cap,
\* the second fewer, and both blocks are in the list
C13_Witness ==
    /\ pc = "fetch"
    /\ Len(feeds) >= 2
    /\ ~feeds[1].fails /\ ~feeds[2].fails
    /\ Len(feeds[1].entries) > MAX_ARTICLES_PER_FEED
    /\ Len(feeds[2].entries) \in 2..(MAX_ARTICLES_PER_FEED - 1)
    /\ Len(all_entries) = MAX_ARTICLES_PER_FEED + Len(feeds[2].entries)

----------------------------------------------------------------------------
(* C14: feed-level failure isolation.  An iteration of the feed loop over a  *)
(* feed that fails to fetch or parse adds nothing to the collected list and  *)
(* does not end the run: the loop goes on to the next feed, or to the fetch  *)
(* of the entries after the last feed.  An iteration over any other feed     *)
(* appends that feed's own capped entries, whatever happened to the feeds    *)
(* before it, and once the collector is through every feed has had its       *)
(* iteration.                                                                *)

\* a step of the feed loop
FeedStep == pc = "collect" /\ feedIdx' = feedIdx + 1

\* the first MAX_ARTICLES_PER_FEED entries of feed f, labelled
OwnEntries(f) ==
    [i \in 1..FeedCount(f) |-> <<feeds[f].entries[i], FeedLabel(f)>>]

C14_Step ==
    FeedStep =>
        /\ pc' = IF feedIdx = Len(feeds) THEN "fetch" ELSE "collect"
        /\ outcome' = outcome
        /\ feeds[feedIdx].fails => all_entries' = all_entries
        /\ ~feeds[feedIdx].fails =>
              all_entries' = all_entries \o OwnEntries(feedIdx)

C14_FeedFailureIsolation ==
    /\ [][C14_Step]_vars
    /\ [](pc \notin {"start", "aborted", "collect"} => feedsParsed = Len(feeds))

\* the middle feed failed, the feeds before and after it contributed their
\* entries, and the run went on to its end
C14_Witness ==
    /\ pc = "done"
    /\ Len(feeds) >= 3
    /\ ~feeds[1].fails /\ feeds[2].fails /\ ~feeds[3].fails
    /\ Len(feeds[1].entries) > 0 /\ Len(feeds[3].entries) > 0
    /\ all_entries = OwnEntries(1) \o OwnEntries(3)

----------------------------------------------------------------------------
(* C15: corpus exclusion.  In every reachable state every Article, in a      *)
(* task's result or in the corpus, has a non-empty body and a link; the task *)
(* of an entry without a link, or of one whose page has an empty text, never *)
(* holds an Article; and the corpus has at most as many Articles as there    *)
(* are collected entries that have a link and a page whose text is not       *)
(* empty, hence at most as many as there are collected entries.              *)

\* entry i has no link
NoLink(i) == all_entries[i][1].link = Absent

\* entry i has a link and its page parses to an empty text
EmptyBody(i) ==
    /\ ~NoLink(i)
    /\ ~Page(all_entries[i][1].link).raises
    /\ Page(all_entries[i][1].link).text = <<>>

Excluded(i) == NoLink(i) \/ EmptyBody(i)

WellFormedArticle(a) == a.body # <<>> /\ a.link # Absent

C15_CorpusExclusion ==
    /\ \A i \in 1..Len(results) :
          results[i].state = "article" =>
             ~Excluded(i) /\ WellFormedArticle(results[i].article)
    /\ \A k \in 1..Len(all_articles) : WellFormedArticle(all_articles[k])
    /\ Len(all_articles) <= Cardinality({i \in Tasks : ~Excluded(i)})
    /\ Len(all_articles) <= Len(all_entries)

\* the corpus was returned for a batch with an entry without a link and an
\* entry whose page is empty, and it holds the Articles of the other entries
C15_Witness ==
    /\ CoordinatorReturned
    /\ \E i, j \in Tasks : NoLink(i) /\ EmptyBody(j)
    /\ Len(all_articles) >= 2
    /\ Len(all_articles) = Cardinality({i \in Tasks : ~Excluded(i)})

----------------------------------------------------------------------------
(* C16: the worked example.  With the entries A, B, C, where the extraction  *)
(* of A's page fails, B's body contains the keyword of the first report and  *)
(* C's body the keyword of the second, the corpus is [B, C]; when every      *)
(* summarization of a report has succeeded that report holds exactly one     *)
(* item, from B with the first report's keyword as its matched keywords,     *)
(* from C with the second report's; and a run that completes with every      *)
(* summarization succeeded has produced exactly two artifacts, one for each  *)
(* report.                                                                   *)

\* every summarize call of report r has been made and has returned a summary
AllSummarized(r) ==
    /\ LoopOver(r)
    /\ \A m \in 1..Len(sumResults[r]) : sumResults[r][m]

\* article a is the Article of the page behind link, with that page's title and text
IsArticleOfPage(a, link) ==
    /\ a.link = link
    /\ a.title = Page(link).title
    /\ a.body = Page(link).text

\* report r holds one item, made from the page behind link, whose matched
\* keywords are the text kw
HoldsOneItem(r, link, kw) ==
    /\ Len(report_data[r]) = 1
    /\ report_data[r][1].link = link
    /\ report_data[r][1].title = Page(link).title
    /\ report_data[r][1].keywords = kw

C16_EndToEndExample ==
    /\ CoordinatorReturned =>
          /\ Len(all_articles) = 2
          /\ IsArticleOfPage(all_articles[1], "uB")
          /\ IsArticleOfPage(all_articles[2], "uC")
    /\ AllSummarized(1) => HoldsOneItem(1, "uB", <<"nong", "hyup">>)
    /\ AllSummarized(2) => HoldsOneItem(2, "uC", <<"hwan", "yul">>)
    /\ (pc = "done" /\ AllSummarized(1) /\ AllSummarized(2)) =>
          /\ artifacts = {"nongup_report", "gyeongje_report"}
          /\ Cardinality(artifacts) = 2

\* the example has run to its end with both summarizations succeeded
C16_Witness ==
    /\ pc = "done"
    /\ reports = ExampleConfig
    /\ Len(all_entries) = 3
    /\ all_entries[1][1] = ExampleEntryA
    /\ AllSummarized(1) /\ AllSummarized(2)
    /\ Len(sumResults[1]) = 1 /\ Len(sumResults[2]) = 1
    /\ Cardinality(artifacts) = 2

----------------------------------------------------------------------------
(* C17 as claimed: title fallback.  The title of every Article is the page's *)
(* extracted title when the page has one, otherwise the entry's own title    *)
(* when the entry has one, otherwise the placeholder; so no Article, in a    *)
(* task's result or in the corpus, has an empty title.                       *)

\* the title the fallback chain of the claim gives for entry i
ClaimedTitle(i) ==
    LET entry == all_entries[i][1]
        page  == Page(entry.link)
    IN  IF page.title # <<>> THEN page.title
        ELSE IF entry.has_title /\ entry.title # <<>> THEN entry.title
        ELSE PlaceholderTitle

C17_TitleFallback ==
    /\ \A i \in 1..Len(results) :
          results[i].state = "article" =>
             /\ results[i].article.title = ClaimedTitle(i)
             /\ results[i].article.title # <<>>
    /\ \A k \in 1..Len(all_articles) : all_articles[k].title # <<>>

----------------------------------------------------------------------------
(* C18: where a matched keyword is found.  The keywords recorded in an       *)
(* item's matchedKeywords are read back from the stored text as the renderer *)
(* reads them: split at "," and stripped (lines 262-266).                    *)

RECURSIVE SplitAt(_, _)
\* s.split(c)
SplitAt(s, c) ==
    IF \A i \in 1..Len(s) : s[i] # c THEN <<s>>
    ELSE LET p == CHOOSE i \in 1..Len(s) :
                      s[i] = c /\ \A j \in 1..(i - 1) : s[j] # c
         IN  <<SubSeq(s, 1, p - 1)>> \o SplitAt(SubSeq(s, p + 1, Len(s)), c)

RECURSIVE Strip(_)
\* kw.strip()
Strip(s) ==
    IF s # <<>> /\ Head(s) = " " THEN Strip(Tail(s))
    ELSE IF s # <<>> /\ s[Len(s)] = " " THEN Strip(SubSeq(s, 1, Len(s) - 1))
    ELSE s

\* the keywords recorded in the joined text
RecordedKeywords(text) ==
    LET pieces == SplitAt(text, ",")
    IN  {Strip(pieces[i]) : i \in 1..Len(pieces)} \ {<<>>}

\* the article behind item j of report r
ItemArticle(r, j) == all_articles[itemSrc[r][j]]

\* no article outside the selection of a classified report is an item of it
OnlySelectedAreItems(r) ==
    \A j \in 1..Len(report_data[r]) :
       \E m \in 1..Len(filtered_articles[r]) :
          filtered_articles[r][m] = itemSrc[r][j]

(* C18 as claimed: every recorded keyword is found, case disregarded, within *)
(* the article's title or within its body; an article in which no keyword    *)
(* occurs in the title and none in the body is not a member of the report.   *)

C18_KeywordInTitleOrBody ==
    \A r \in Reports :
       /\ \A j \in 1..Len(report_data[r]) :
             \A kw \in RecordedKeywords(report_data[r][j].keywords) :
                \/ KeywordOccurs(kw, ItemArticle(r, j).title)
                \/ KeywordOccurs(kw, ItemArticle(r, j).body)
       /\ Classified(r) =>
             \A m \in 1..Len(filtered_articles[r]) :
                LET art == all_articles[filtered_articles[r][m]]
                IN  \E k \in 1..Len(reports[r].keywords) :
                       \/ KeywordOccurs(reports[r].keywords[k], art.title)
                       \/ KeywordOccurs(reports[r].keywords[k], art.body)

(* C18, amended: every recorded keyword is a keyword of the report and is    *)
(* found, case disregarded, within the concatenation title ++ body of the    *)
(* item's article, where it may span the end of the title and the start of   *)
(* the body; an article in whose title ++ body no keyword of the report      *)
(* occurs is neither selected for the report nor an item of it.              *)

C18_KeywordInTitleBodyConcatenation ==
    \A r \in Reports :
       /\ \A j \in 1..Len(report_data[r]) :
             \A kw \in RecordedKeywords(report_data[r][j].keywords) :
                /\ \E k \in 1..Len(reports[r].keywords) : reports[r].keywords[k] = kw
                /\ KeywordOccurs(kw, ItemArticle(r, j).title \o ItemArticle(r, j).body)
       /\ OnlySelectedAreItems(r)
       /\ Classified(r) =>
             \A a \in 1..Len(all_articles) :
                ~SomeKeywordOccurs(r, a) =>
                   \A m \in 1..Len(filtered_articles[r]) : filtered_articles[r][m] # a

\* an item with a recorded keyword that occurs neither in the title nor in the
\* body of its article, only across the end of the one and the start of the
\* other, next to a keyword that occurs in the body
C18_Witness ==
    \E r \in Reports :
       \E j \in 1..Len(report_data[r]) :
          /\ \E kw \in RecordedKeywords(report_data[r][j].keywords) :
                /\ ~KeywordOccurs(kw, ItemArticle(r, j).title)
                /\ ~KeywordOccurs(kw, ItemArticle(r, j).body)
                /\ KeywordOccurs(kw, ItemArticle(r, j).title \o ItemArticle(r, j).body)
          /\ \E kw \in RecordedKeywords(report_data[r][j].keywords) :
                KeywordOccurs(kw, ItemArticle(r, j).body)
          /\ Cardinality(RecordedKeywords(report_data[r][j].keywords)) = 2

----------------------------------------------------------------------------
(* C19: deterministic corpus order.  The corpus the coordinator returns is a *)
(* function of the collected entries and of the outcome of each entry's      *)
(* fetch alone: the Articles of the successful entries in the order of their *)
(* submission (feed order, then entry order within the feed), whatever the   *)
(* order in which the workers started and completed; and the items of every  *)
(* report follow that order.                                                 *)

RECURSIVE SuccessfulUpTo(_)
\* the Articles of the successful entries among the first n, in entry order
SuccessfulUpTo(n) ==
    IF n = 0 THEN <<>>
    ELSE SuccessfulUpTo(n - 1) \o
         (IF FetchSucceeds(n) THEN <<ArticleOf(n)>> ELSE <<>>)

\* the items of report r are in corpus order
ItemsInCorpusOrder(r) ==
    /\ \A m, n \in 1..Len(itemSrc[r]) : m < n => itemSrc[r][m] < itemSrc[r][n]
    /\ \A j \in 1..Len(report_data[r]) :
          /\ report_data[r][j].link = all_articles[itemSrc[r][j]].link
          /\ report_data[r][j].title = all_articles[itemSrc[r][j]].title

C19_DeterministicCorpusOrder ==
    /\ CoordinatorReturned => all_articles = SuccessfulUpTo(Len(all_entries))
    /\ \A r \in Reports : ItemsInCorpusOrder(r)

\* the corpus was returned with Articles of both feeds around failed entries,
\* and a report holds two items
C19_Witness ==
    /\ CoordinatorReturned
    /\ Len(feeds) >= 2
    /\ \E i, j, k \in Tasks :
          /\ i < j /\ j < k
          /\ FetchSucceeds(i) /\ ~FetchSucceeds(j) /\ FetchSucceeds(k)
          /\ ArticleOf(i) # ArticleOf(k)
    /\ \E r \in Reports :
          /\ Len(report_data[r]) >= 2
          /\ report_data[r][1].link # report_data[r][2].link

====
